---- MODULE Spec2Model ----
(***************************************************************************)
(* Quiz session engine of bot.py: the session table user_sessions, the     *)
(* job queue of timeout jobs, the quiz_results table and the coroutines    *)
(* start_quiz_button, send_next_question, poll_answer, question_timeout    *)
(* and finish_quiz, interleaved at their await points.                     *)
(*                                                                         *)
(* Scheduling (bot.py 733-742): the Application is built without           *)
(* concurrent_updates, so update handlers (start_quiz_button, poll_answer) *)
(* run one after the other, each to completion; jobs of the job queue      *)
(* (question_timeout) run as tasks of their own and interleave with the    *)
(* running handler and with each other at every await.                     *)
(***************************************************************************)
EXTENDS Integers, Sequences, FiniteSets, TLC

\* ------------------------------------------------------------------ bounds
\* Number of start_quiz_button updates delivered in one behaviour.
MaxStarts == 2
\* Number of participants.
NumUsers == 2
\* Largest value of the clock (seconds since the bot started).
MaxTime == 1
\* Number of exceptions the transport and the database raise in one behaviour.
MaxFaults == 1

Users == 1..NumUsers

\* ------------------------------------------------------- the quizzes table
\* A question as the parsers store it: options and the 0-based correct index.
Question(opts, c) == [options |-> opts, correct |-> c]

\* The options the parsers give a TYPE TF question.
TF == <<"True", "False">>

\* Rows of the quizzes table (written by save_quiz_to_db), keyed by quiz_id:
\* qa has two true/false questions, qb one.
QuizTable ==
    [qa |-> [quiz_name |-> <<"a">>,
             questions |-> <<Question(TF, 0), Question(TF, 0)>>,
             time_per_question |-> 5],
     qb |-> [quiz_name |-> <<"b">>,
             questions |-> <<Question(TF, 1)>>,
             time_per_question |-> 5]]

\* Quiz ids a STARTQUIZ button may carry; "zz" has no row.
QuizIds == {"qa", "qb", "zz"}

\* Python's None (here the empty sequence).
None == <<>>

\* ------------------------------------------------------------ the shuffle
\* The outcomes of random.shuffle on a list of n elements.
Perms(n) == {p \in [1..n -> 1..n] : \A i, j \in 1..n : p[i] = p[j] => i = j}

\* list.index(x): 0-based position of the first occurrence.
ListIndex(seq, x) ==
    (CHOOSE i \in 1..Len(seq) :
        seq[i] = x /\ \A j \in 1..(i - 1) : seq[j] # x) - 1

\* (variant: the correct index is not rewritten)
shuffle_question_options_stale(question, p) ==
    LET options == question.options
        new_options == [i \in 1..Len(options) |-> options[p[i]]]
    IN  [options |-> new_options, correct |-> question.correct]

\* shuffle_question_options with the permutation p drawn by random.shuffle.
shuffle_question_options(question, p) ==
    LET options == question.options
        correct_option == options[question.correct + 1]
        new_options == [i \in 1..Len(options) |-> options[p[i]]]
    IN  [options |-> new_options, correct |-> ListIndex(new_options, correct_option)]

\* The session-local question lists start_quiz_button can build from a quiz:
\* the order shuffled, then each question's options shuffled.
ShuffledQuestions(questions) ==
    LET n == Len(questions)
        OptPerms(q) == Perms(Len(q.options))
    IN  UNION { { [i \in 1..n |-> shuffle_question_options(questions[order[i]], op[i])] :
                   op \in { f \in [1..n -> UNION {OptPerms(questions[k]) : k \in 1..n}] :
                             \A i \in 1..n : f[i] \in OptPerms(questions[order[i]]) } } :
                order \in Perms(n) }

VARIABLES
    user_sessions,  \* participant -> reference of the session object, 0 if none
    heap,           \* session objects by reference (dicts are shared by reference)
    jobs,           \* armed timeout jobs of the job queue
    tasks,          \* suspended coroutines, each at its await
    results,        \* rows of quiz_results, in insertion order
    reports,        \* per row: the rank and total_users finish_quiz reported
    published,      \* per session object: question indices sent, in order
    starts,         \* start_quiz_button updates delivered so far
    now,            \* the clock, in seconds, as of its last reading
    last,           \* the last step taken and its outcome
    quizzes,        \* rows of the quizzes table, keyed by quiz_id
    temp_uploads,   \* operator -> the questions of the uploaded file, None if none
    quiz_creation_step, \* operator -> step and quiz name of the creation dialogue
    committed,      \* per row of quiz_results: the session object it was saved for
    faults,         \* how many more times the transport or the database raises
    lists,          \* Python list objects (options lists) by reference
    dicts,          \* Python question dicts by reference; options is a list reference
    trial,          \* the question handed to the shuffle, as loaded; None if none
    document,       \* the rows (blocks) of the uploaded file being parsed
    parsed          \* the parser that ran and the questions it returned; None if none

vars == <<user_sessions, heap, jobs, tasks, results, reports,
          published, starts, now, last, quizzes, temp_uploads,
          quiz_creation_step, committed, faults, lists, dicts, trial,
          document, parsed>>

\* The quiz creation dialogue and the quizzes table it writes.
creation == <<quizzes, temp_uploads, quiz_creation_step>>

\* The objects of one call of shuffle_question_options.
shuffling == <<lists, dicts, trial>>

\* The file handed to a parser and what the parser returned.
parsing == <<document, parsed>>

\* (variant: a missing id falls back to the first quiz)
load_quiz_from_db_fallback(quiz_id) ==
    IF quiz_id \in DOMAIN quizzes THEN quizzes[quiz_id] ELSE QuizTable["qa"]
\* load_quiz_from_db: the row, or None if absent.
load_quiz_from_db(quiz_id) ==
    IF quiz_id \in DOMAIN quizzes THEN quizzes[quiz_id] ELSE None

\* ------------------------------------------------------------------ frames
\* A suspended coroutine: the handler or job it belongs to (kind), the await
\* it is parked at (pc) and the locals it holds across that await.
Frame(kind, pc, user_id, quiz_id, sess, idx, pid, rid) ==
    [kind |-> kind, pc |-> pc, user_id |-> user_id, quiz_id |-> quiz_id,
     sess |-> sess, idx |-> idx, pid |-> pid, rid |-> rid]

\* What a step records in last.
Event(op, user_id, sess, idx, res) ==
    [op |-> op, user_id |-> user_id, sess |-> sess, idx |-> idx, res |-> res,
     adv |-> "none", pub |-> -1]

\* Update handlers are processed one at a time (no concurrent_updates).
HandlerBusy == \E f \in tasks : f.kind # "question_timeout"

\* (variant: the name is not matched)
get_jobs_by_name_any(user_id) == jobs

\* context.job_queue.get_jobs_by_name(f"timeout_{user_id}")
get_jobs_by_name(user_id) == {j \in jobs : j.user_id = user_id}

Init ==
    /\ user_sessions = [u \in Users |-> 0]
    /\ heap = <<>>
    /\ jobs = {}
    /\ tasks = {}
    /\ results = <<>>
    /\ reports = <<>>
    /\ published = <<>>
    /\ starts = 0
    /\ now = 0
    /\ last = Event("init", 0, 0, -1, "none")
    /\ quizzes = QuizTable
    /\ temp_uploads = [u \in Users |-> None]
    /\ quiz_creation_step = [u \in Users |-> None]
    /\ committed = <<>>
    /\ faults = 0
    /\ lists = <<>>
    /\ dicts = <<>>
    /\ trial = None
    /\ document = <<>>
    /\ parsed = None

\* The same start, with a transport and a database that may raise.
InitFail ==
    /\ user_sessions = [u \in Users |-> 0]
    /\ heap = <<>>
    /\ jobs = {}
    /\ tasks = {}
    /\ results = <<>>
    /\ reports = <<>>
    /\ published = <<>>
    /\ starts = 0
    /\ now = 0
    /\ last = Event("init", 0, 0, -1, "none")
    /\ quizzes = QuizTable
    /\ temp_uploads = [u \in Users |-> None]
    /\ quiz_creation_step = [u \in Users |-> None]
    /\ committed = <<>>
    /\ faults = MaxFaults
    /\ lists = <<>>
    /\ dicts = <<>>
    /\ trial = None
    /\ document = <<>>
    /\ parsed = None

\* --------------------------------------------------------------- ranking
\* SELECT COUNT(*) FROM quiz_results WHERE quiz_id = %s [AND better], over the
\* rows in table order.
RECURSIVE CountRows(_, _, _, _, _)
CountRows(rows, quiz_id, score, duration_seconds, onlyBetter) ==
    IF rows = <<>> THEN 0
    ELSE LET r == Head(rows)
             hit == /\ r.quiz_id = quiz_id
                    /\ (onlyBetter =>
                          \/ r.score > score
                          \/ (r.score = score /\ r.duration_seconds < duration_seconds))
         IN  (IF hit THEN 1 ELSE 0)
               + CountRows(Tail(rows), quiz_id, score, duration_seconds, onlyBetter)

\* (variant: score and total_questions are passed in each other's place)
save_result_swapped(rows, quiz_id, user_id, score, total_questions, duration_seconds, started_at, finished_at) ==
    Append(rows, [quiz_id |-> quiz_id, user_id |-> user_id, score |-> total_questions,
                  total_questions |-> score,
                  duration_seconds |-> duration_seconds,
                  started_at |-> started_at, finished_at |-> finished_at])
\* save_result: INSERT INTO quiz_results.
save_result(rows, quiz_id, user_id, score, total_questions, duration_seconds, started_at, finished_at) ==
    Append(rows, [quiz_id |-> quiz_id, user_id |-> user_id, score |-> score,
                  total_questions |-> total_questions,
                  duration_seconds |-> duration_seconds,
                  started_at |-> started_at, finished_at |-> finished_at])

\* (variant: the duration is compared with <=)
get_rank_for_result_le(rows, quiz_id, score, duration_seconds) ==
    LET same == {i \in 1..Len(rows) : rows[i].quiz_id = quiz_id}
        better == {i \in same :
                     \/ rows[i].score > score
                     \/ /\ rows[i].score = score
                        /\ rows[i].duration_seconds <= duration_seconds}
    IN  [rank |-> Cardinality(better) + 1, total_users |-> Cardinality(same)]
\* (variant: a lower score counts as better)
get_rank_for_result_lower(rows, quiz_id, score, duration_seconds) ==
    LET same == {i \in 1..Len(rows) : rows[i].quiz_id = quiz_id}
        better == {i \in same :
                     \/ rows[i].score < score
                     \/ /\ rows[i].score = score
                        /\ rows[i].duration_seconds < duration_seconds}
    IN  [rank |-> Cardinality(better) + 1, total_users |-> Cardinality(same)]
\* (variant: total_users is counted on the table as it was before the save)
get_rank_for_result_before(rows, quiz_id, score, duration_seconds) ==
    LET earlier == SubSeq(rows, 1, Len(rows) - 1)
        total_users == CountRows(earlier, quiz_id, score, duration_seconds, FALSE)
        better_count == CountRows(rows, quiz_id, score, duration_seconds, TRUE)
    IN  [rank |-> better_count + 1, total_users |-> total_users]
\* get_rank_for_result on the table rows: (rank, total_users).
get_rank_for_result(rows, quiz_id, score, duration_seconds) ==
    LET total_users == CountRows(rows, quiz_id, score, duration_seconds, FALSE)
        better_count == CountRows(rows, quiz_id, score, duration_seconds, TRUE)
    IN  [rank |-> better_count + 1, total_users |-> total_users]

\* The values datetime.utcnow() can return: the clock never runs backwards.
utcnow == now..MaxTime

\* ------------------------------------------------------ send_next_question
\* finish_quiz up to its await of send_message: the result row is saved and
\* the rank computed; the session is deleted only after the await.
finish_quiz(kind, user_id, h, tk, ev) ==
    \/ \* save_result raises: the exception ends the coroutine where it is
       /\ faults > 0
       /\ faults' = faults - 1
       /\ heap' = h
       /\ tasks' = tk
       /\ last' = [ev EXCEPT !.adv = "save_result_raised"]
       /\ UNCHANGED <<results, reports, published, now, committed>>
    \/ \E finished_at \in utcnow :
       LET s == user_sessions[user_id]
           session == h[s]
           score == session.score
           total == Len(session.questions)
           started_at == session.started_at
           duration_seconds == finished_at - started_at
           rows == save_result(results, session.quiz_id, user_id, score, total,
                               duration_seconds, started_at, finished_at)
       IN  /\ results' = rows
           /\ reports' = Append(reports,
                   get_rank_for_result(rows, session.quiz_id, score, duration_seconds))
           /\ heap' = h
           /\ tasks' = tk \cup {Frame(kind, "send_message", user_id, session.quiz_id,
                                      s, -1, 0, Len(rows))}
           /\ committed' = Append(committed, s)
           /\ now' = finished_at
           /\ last' = [ev EXCEPT !.adv = "finish_quiz"]
           /\ UNCHANGED <<published, faults>>

\* message.poll.id: the transport's id of the poll it publishes, unique over
\* all polls (here the session it is sent for and the count of polls sent for it).
NewPollId(s) == <<s, Len(published[s]) + 1>>

\* Ids of all polls published so far.
PollIds == UNION {{<<s, k>> : k \in 1..Len(published[s])} : s \in 1..Len(heap)}

\* send_next_question up to its first await, called with the heap h and the
\* suspended coroutines tk its caller leaves behind.
send_next_question(kind, user_id, h, tk, ev) ==
    LET s == user_sessions[user_id] IN
    IF s = 0
    THEN /\ heap' = h
         /\ tasks' = tk
         /\ last' = [ev EXCEPT !.adv = "return"]
         /\ UNCHANGED <<results, reports, published, now, committed, faults>>
    ELSE LET session == h[s]
             idx == session.index
         IN  IF idx >= Len(session.questions)
             THEN finish_quiz(kind, user_id, h, tk, ev)
             ELSE /\ heap' = h
                  /\ tasks' = tk \cup {Frame(kind, "send_poll", user_id,
                                             session.quiz_id, s, idx, NewPollId(s), 0)}
                  /\ published' = [published EXCEPT ![s] = Append(@, idx)]
                  /\ last' = [ev EXCEPT !.adv = "send_poll", !.pub = idx]
                  /\ UNCHANGED <<results, reports, now, committed, faults>>

\* (variant: the session is looked up again after the await)
held_session_refetched(f) == user_sessions[f.user_id]

\* The dict the local variable session of a suspended send_next_question
\* refers to: the one it fetched before the await.
held_session(f) == f.sess

\* send_next_question after send_poll returned: the poll id is mapped to the
\* index, the participant's jobs are removed, a new job is armed and the
\* index of the session object the coroutine holds is incremented. The job's
\* data is (user_id, question_index); armed_for only records which session
\* object the arming coroutine held and is read by no handler.
send_poll_returns(f) ==
    /\ f \in tasks /\ f.pc = "send_poll"
    /\ heap' = [heap EXCEPT ![held_session(f)] =
                  [@ EXCEPT !.poll_to_index = (f.pid :> f.idx) @@ @,
                            !.index = @ + 1]]
    /\ jobs' = (jobs \ get_jobs_by_name(f.user_id))
                  \cup {[user_id |-> f.user_id, question_index |-> f.idx,
                         armed_for |-> f.sess]}
    /\ tasks' = tasks \ {f}
    /\ last' = Event("send_poll_returns", f.user_id, f.sess, f.idx, "armed")
    /\ UNCHANGED <<user_sessions, results, reports, published, starts, now>>
    /\ UNCHANGED <<creation, shuffling, parsing, committed, faults>>

\* finish_quiz after send_message returned: del user_sessions[user_id]
\* (a KeyError, which ends the coroutine, if the entry is gone).
send_message_returns(f) ==
    /\ f \in tasks /\ f.pc = "send_message"
    /\ IF user_sessions[f.user_id] = 0
       THEN /\ UNCHANGED user_sessions
            /\ last' = Event("send_message_returns", f.user_id, 0, -1, "KeyError")
       ELSE /\ user_sessions' = [user_sessions EXCEPT ![f.user_id] = 0]
            /\ last' = Event("send_message_returns", f.user_id,
                             user_sessions[f.user_id], -1, "deleted")
    /\ tasks' = tasks \ {f}
    /\ UNCHANGED <<heap, jobs, results, reports, published, starts, now>>
    /\ UNCHANGED <<creation, shuffling, parsing, committed, faults>>

\* send_poll raises (no try/except in send_next_question): the exception
\* ends the coroutine and its caller; nothing after the await is executed.
send_poll_raises(f) ==
    /\ faults > 0
    /\ f \in tasks /\ f.pc = "send_poll"
    /\ tasks' = tasks \ {f}
    /\ last' = Event("send_poll_raises", f.user_id, f.sess, f.idx, "raised")
    /\ UNCHANGED <<user_sessions, heap, jobs, results, reports, published, starts, now>>
    /\ faults' = faults - 1
    /\ UNCHANGED <<creation, shuffling, parsing, committed>>

\* send_message raises in finish_quiz: the del after it is not executed.
send_message_raises(f) ==
    /\ faults > 0
    /\ f \in tasks /\ f.pc = "send_message"
    /\ tasks' = tasks \ {f}
    /\ last' = Event("send_message_raises", f.user_id, f.sess, -1, "raised")
    /\ UNCHANGED <<user_sessions, heap, jobs, results, reports, published, starts, now>>
    /\ faults' = faults - 1
    /\ UNCHANGED <<creation, shuffling, parsing, committed>>

\* ------------------------------------------------------- start_quiz_button
\* A STARTQUIZ|quiz_id button press is dispatched: the handler runs up to
\* its await of query.answer().
start_quiz_button(user_id, quiz_id) ==
    /\ ~HandlerBusy
    /\ starts < MaxStarts
    /\ starts' = starts + 1
    /\ tasks' = tasks \cup {Frame("start_quiz_button", "query_answer", user_id,
                                  quiz_id, 0, -1, 0, 0)}
    /\ last' = Event("start_quiz_button", user_id, 0, -1, "dispatched")
    /\ UNCHANGED <<user_sessions, heap, jobs, results, reports, published, now>>
    /\ UNCHANGED <<creation, shuffling, parsing, committed, faults>>

\* The session dict start_quiz_button stores.
NewSession(quiz_id, chat_id, questions, time_per_question, started_at) ==
    [quiz_id |-> quiz_id, chat_id |-> chat_id, questions |-> questions,
     index |-> 0, score |-> 0, time_per_question |-> time_per_question,
     started_at |-> started_at, answered |-> {}, poll_to_index |-> <<>>]

\* After query.answer(): the quiz is loaded; if it is missing the handler
\* replies "Quiz not found" and returns, else it shuffles, stores a new
\* session for the participant and awaits the "Quiz started" reply.
start_quiz_button_load(f) ==
    /\ f \in tasks /\ f.pc = "query_answer"
    /\ LET quiz_data == load_quiz_from_db(f.quiz_id) IN
       IF quiz_data = None
       THEN /\ tasks' = (tasks \ {f}) \cup {[f EXCEPT !.pc = "reply_not_found"]}
            /\ last' = Event("start_quiz_button_load", f.user_id, 0, -1, "not_found")
            /\ UNCHANGED <<user_sessions, heap, published, now>>
       ELSE \E questions \in ShuffledQuestions(quiz_data.questions), started_at \in utcnow :
            LET s == Len(heap) + 1 IN
            /\ heap' = Append(heap, NewSession(f.quiz_id, f.user_id, questions,
                                               quiz_data.time_per_question, started_at))
            /\ now' = started_at
            /\ published' = Append(published, <<>>)
            /\ user_sessions' = [user_sessions EXCEPT ![f.user_id] = s]
            /\ tasks' = (tasks \ {f}) \cup {[f EXCEPT !.pc = "reply_text", !.sess = s]}
            /\ last' = Event("start_quiz_button_load", f.user_id, s, -1, "created")
    /\ UNCHANGED <<jobs, results, reports, starts>>
    /\ UNCHANGED <<creation, shuffling, parsing, committed, faults>>

\* After the "Quiz not found" reply: return.
start_quiz_button_rejected(f) ==
    /\ f \in tasks /\ f.pc = "reply_not_found"
    /\ tasks' = tasks \ {f}
    /\ last' = Event("start_quiz_button_rejected", f.user_id, 0, -1, "returned")
    /\ UNCHANGED <<user_sessions, heap, jobs, results, reports,
                   published, starts, now>>
    /\ UNCHANGED <<creation, shuffling, parsing, committed, faults>>

\* After the "Quiz started" reply: send_next_question(user_id).
start_quiz_button_send(f) ==
    /\ f \in tasks /\ f.pc = "reply_text"
    /\ send_next_question("start_quiz_button", f.user_id, heap, tasks \ {f},
                          Event("start_quiz_button_send", f.user_id,
                                user_sessions[f.user_id], -1, "started"))
    /\ UNCHANGED <<user_sessions, jobs, starts>>
    /\ UNCHANGED <<creation, shuffling, parsing>>

\* ------------------------------------------------------------- poll_answer
\* (variant: the check is missing)
AlreadyAnsweredUnchecked(session, idx) == FALSE
\* The guard shared by poll_answer and question_timeout: the question index
\* was resolved before.
AlreadyAnswered(session, idx) == idx \in session.answered

\* poll_id in session["poll_to_index"]
KnownPoll(session, poll_id) == poll_id \in DOMAIN session.poll_to_index

\* session["score"] after an accepted answer.
ScoreAfter(session, idx, selected) ==
    IF selected = session.questions[idx + 1].correct
    THEN session.score + 1 ELSE session.score

\* A poll answer update (poll_id, responder, first selected option) is
\* dispatched; the handler runs up to the await inside send_next_question.
poll_answer(user_id, poll_id, selected) ==
    /\ ~HandlerBusy
    /\ LET s == user_sessions[user_id] IN
       IF s = 0
       THEN /\ last' = Event("poll_answer", user_id, 0, -1, "no_session")
            /\ UNCHANGED <<heap, jobs, tasks, results, reports, published, now, committed, faults>>
       ELSE IF ~KnownPoll(heap[s], poll_id)
       THEN /\ last' = Event("poll_answer", user_id, s, -1, "unknown_poll")
            /\ UNCHANGED <<heap, jobs, tasks, results, reports, published, now, committed, faults>>
       ELSE LET idx == heap[s].poll_to_index[poll_id] IN
            IF AlreadyAnswered(heap[s], idx)
            THEN /\ last' = Event("poll_answer", user_id, s, idx, "duplicate")
                 /\ UNCHANGED <<heap, jobs, tasks, results, reports, published, now, committed, faults>>
            ELSE /\ jobs' = jobs \ get_jobs_by_name(user_id)
                 /\ send_next_question("poll_answer", user_id,
                        [heap EXCEPT ![s] =
                            [@ EXCEPT !.answered = @ \cup {idx},
                                      !.score = ScoreAfter(heap[s], idx, selected)]],
                        tasks,
                        Event("poll_answer", user_id, s, idx, "accepted"))
    /\ UNCHANGED <<user_sessions, starts>>
    /\ UNCHANGED <<creation, shuffling, parsing>>

\* -------------------------------------------------------- question_timeout
\* An armed job fires: it leaves the job queue and question_timeout runs up
\* to the await inside send_next_question.
question_timeout(job) ==
    /\ job \in jobs
    /\ jobs' = jobs \ {job}
    /\ LET user_id == job.user_id
           question_index == job.question_index
           s == user_sessions[user_id]
       IN  IF s = 0
           THEN /\ last' = Event("question_timeout", user_id, 0, question_index, "no_session")
                /\ UNCHANGED <<heap, tasks, results, reports, published, now, committed, faults>>
           ELSE IF AlreadyAnswered(heap[s], question_index)
           THEN /\ last' = Event("question_timeout", user_id, s, question_index, "duplicate")
                /\ UNCHANGED <<heap, tasks, results, reports, published, now, committed, faults>>
           ELSE send_next_question("question_timeout", user_id,
                    [heap EXCEPT ![s] = [@ EXCEPT !.answered = @ \cup {question_index}]],
                    tasks,
                    Event("question_timeout", user_id, s, question_index, "accepted"))
    /\ UNCHANGED <<user_sessions, starts>>
    /\ UNCHANGED <<creation, shuffling, parsing>>

\* Option ids a poll answer can carry (every poll here has two options).
OptionIds == 0..1

Next ==
    \/ \E u \in Users, q \in QuizIds : start_quiz_button(u, q)
    \/ \E f \in tasks : start_quiz_button_load(f)
    \/ \E f \in tasks : start_quiz_button_rejected(f)
    \/ \E f \in tasks : start_quiz_button_send(f)
    \/ \E f \in tasks : send_poll_returns(f)
    \/ \E f \in tasks : send_message_returns(f)
    \/ \E u \in Users, p \in PollIds, o \in OptionIds : poll_answer(u, p, o)
    \/ \E j \in jobs : question_timeout(j)

Spec == Init /\ [][Next]_vars

\* The same handlers with a transport and a database that may raise.
NextFail ==
    \/ Next
    \/ \E f \in tasks : send_poll_raises(f)
    \/ \E f \in tasks : send_message_raises(f)

SpecFail == InitFail /\ [][NextFail]_vars

\* ------------------------------------------------------------ vocabulary
Sessions == 1..Len(heap)
NumQuestions(s) == Len(heap[s].questions)
\* Question index i of session object s is resolved.
Resolved(s, i) == i \in heap[s].answered
\* How many times question index i was sent for session object s.
TimesPublished(s, i) == Cardinality({k \in 1..Len(published[s]) : published[s][k] = i})

\* C1. At-most-once scoring: a question index enters a session's answered set
\* at most once (the set never loses an index), and every step that raises a
\* session's score, or in which poll_answer or question_timeout calls
\* send_next_question, is a step in which exactly one index, unresolved until
\* then, enters that session's answered set; a score rises by one at a time.
AtMostOnceStep ==
    /\ \A s \in Sessions :
        /\ heap[s].answered \subseteq heap'[s].answered
        /\ heap'[s].score # heap[s].score =>
             /\ heap'[s].score = heap[s].score + 1
             /\ Cardinality(heap'[s].answered \ heap[s].answered) = 1
    /\ (last'.op \in {"poll_answer", "question_timeout"} /\ last'.adv # "none") =>
         /\ last'.sess \in Sessions
         /\ ~Resolved(last'.sess, last'.idx)
         /\ heap'[last'.sess].answered = heap[last'.sess].answered \cup {last'.idx}
         /\ \A s \in Sessions \ {last'.sess} : heap'[s] = heap[s]
AtMostOnceScoring == [][AtMostOnceStep]_vars

\* C1 witness: in a session that has scored, the timeout job of a published
\* question fires when that question is already resolved, and is suppressed.
AtMostOnceWitness ==
    /\ last.op = "question_timeout" /\ last.res = "duplicate"
    /\ heap[last.sess].score > 0
    /\ \E p \in DOMAIN heap[last.sess].poll_to_index :
          heap[last.sess].poll_to_index[p] = last.idx

IndexBounds == \A s \in Sessions : 0 <= heap[s].index /\ heap[s].index <= NumQuestions(s)
IndexMonotonicStep == \A s \in Sessions : heap'[s].index >= heap[s].index
IndexMonotonic == [][IndexMonotonicStep]_vars

\* C4. No skipped question: a session for which finish_quiz has run has had
\* every question index published exactly once and resolved.
Finished(s) == \E r \in tasks : r.pc = "send_message" /\ r.sess = s
NoSkippedQuestion ==
    \A s \in Sessions :
        /\ Finished(s) =>
              \A i \in 0..(NumQuestions(s) - 1) :
                  TimesPublished(s, i) = 1 /\ Resolved(s, i)
        /\ \A i \in 0..(heap[s].index - 2) :
              i < NumQuestions(s) => (TimesPublished(s, i) >= 1 /\ Resolved(s, i))

\* C5. Score bound: every session's score lies in 0..len(questions), and so
\* does the score of every row of quiz_results.
ScoreBound ==
    /\ \A s \in Sessions : 0 <= heap[s].score /\ heap[s].score <= NumQuestions(s)
    /\ \A k \in 1..Len(results) :
          0 <= results[k].score /\ results[k].score <= results[k].total_questions

\* C5 witness: a row with a full score is in quiz_results.
ScoreBoundWitness ==
    \E k \in 1..Len(results) :
        results[k].total_questions = 2 /\ results[k].score = results[k].total_questions

\* C6. Suppressed answers are no-ops: a poll_answer whose responder has no
\* session, whose poll id is not in the session's poll_to_index, or whose
\* question index is already in the answered set changes no session object,
\* no table entry, no job and no coroutine, saves no result and publishes no
\* question.
Suppressed(user_id, poll_id) ==
    LET s == user_sessions[user_id] IN
    \/ s = 0
    \/ poll_id \notin DOMAIN heap[s].poll_to_index
    \/ heap[s].poll_to_index[poll_id] \in heap[s].answered
SuppressedAnswerStep ==
    (/\ last'.op = "poll_answer"
     /\ ~UNCHANGED <<user_sessions, heap, jobs, tasks, results, reports,
                     published, starts, now>>)
    => \A p \in PollIds, o \in OptionIds :
          poll_answer(last'.user_id, p, o) => ~Suppressed(last'.user_id, p)
SuppressedAnswersAreNoOps == [][SuppressedAnswerStep]_vars

\* C6 witness: an answer arrives for a question that its timeout resolved
\* (no score) and the session has moved on to the next question.
SuppressedAnswerWitness ==
    /\ last.op = "poll_answer" /\ last.res = "duplicate"
    /\ heap[last.sess].score = 0
    /\ heap[last.sess].index > last.idx + 1
    /\ \E j \in jobs : j.user_id = last.user_id

\* C7. Timeout step: when the job armed for question i of the participant's
\* current session fires while i is unresolved, i enters the answered set,
\* the score is unchanged, and question i+1 is published, or finish_quiz runs
\* if i was the last question.
TimeoutStep ==
    \A j \in jobs :
        LET s == user_sessions[j.user_id]
            i == j.question_index
        IN  (/\ question_timeout(j)
             /\ s # 0 /\ j.armed_for = s
             /\ ~Resolved(s, i))
            => /\ heap'[s].answered = heap[s].answered \cup {i}
               /\ heap'[s].score = heap[s].score
               /\ IF i = NumQuestions(s) - 1
                  THEN last'.adv = "finish_quiz"
                  ELSE last'.adv = "send_poll" /\ last'.pub = i + 1
TimeoutAdvances == [][TimeoutStep]_vars

\* C10. QuizNotFound: a start_quiz_button whose quiz id has no row in the
\* quizzes table changes no session, arms no job, publishes nothing and
\* leaves user_sessions as it is, at each of its steps.
QuizNotFoundStep ==
    \A f \in tasks :
        (/\ f.kind = "start_quiz_button" /\ f.quiz_id \notin DOMAIN quizzes
         /\ (start_quiz_button_load(f) \/ start_quiz_button_rejected(f)
               \/ start_quiz_button_send(f) \/ send_poll_returns(f)
               \/ send_message_returns(f)))
        => /\ UNCHANGED <<user_sessions, heap, jobs, published, results>>
           /\ tasks' \subseteq (tasks \ {f}) \cup {[f EXCEPT !.pc = "reply_not_found"]}
QuizNotFoundLeavesNoTrace == [][QuizNotFoundStep]_vars

\* C10 witness: the participant has a session in progress and their start
\* with a missing quiz id has been rejected.
QuizNotFoundWitness ==
    /\ last.op = "start_quiz_button_rejected"
    /\ user_sessions[last.user_id] # 0
    /\ heap[user_sessions[last.user_id]].index = 1

\* ------------------------------------------------- ranking on given tables
\* Rows get_rank_for_result is exercised on: the results of the rank example
\* (score, duration), each for either quiz.
MaxRows == 4
RankInputs == {<<8, 50>>, <<8, 40>>, <<6, 10>>, <<8, 45>>}

\* A result of (score, duration) is committed to quiz_results and ranked, as
\* finish_quiz does with the session's values.
commit_result(quiz_id, user_id, sd) ==
    /\ Len(results) < MaxRows
    /\ LET rows == save_result(results, quiz_id, user_id, sd[1], 10, sd[2], 0, sd[2])
       IN  /\ results' = rows
           /\ reports' = Append(reports, get_rank_for_result(rows, quiz_id, sd[1], sd[2]))
    /\ last' = Event("commit_result", user_id, 0, -1, "ranked")
    /\ committed' = Append(committed, 0)
    /\ UNCHANGED <<user_sessions, heap, jobs, tasks, published, starts, now>>
    /\ UNCHANGED <<creation, shuffling, parsing, faults>>

NextRank == \E q \in DOMAIN quizzes, sd \in RankInputs : commit_result(q, 1, sd)

SpecRank == Init /\ [][NextRank]_vars

\* Row j is strictly better than row k: a higher score, or the same score in
\* a shorter time.
Better(j, k) ==
    \/ results[j].score > results[k].score
    \/ /\ results[j].score = results[k].score
       /\ results[j].duration_seconds < results[k].duration_seconds
SameQuiz(j, k) == results[j].quiz_id = results[k].quiz_id
Tied(j, k) ==
    /\ results[j].score = results[k].score
    /\ results[j].duration_seconds = results[k].duration_seconds
\* The (score, duration) pairs of the rows of quiz_id among the first n rows.
Stored(quiz_id, n) ==
    {<<results[j].score, results[j].duration_seconds>> :
        j \in {i \in 1..n : results[i].quiz_id = quiz_id}}

\* C8. Rank formula: the rank reported for the k-th committed result is 1 +
\* the number of results of the same quiz, among those committed up to it,
\* with a higher score or the same score and a shorter duration; total_users
\* is the number of results of that quiz up to and including it. Against
\* (8,50), (8,40), (6,10) a new (8,45) is rank 2 of 4, and a result tied with
\* a stored one on score and duration gets that one's rank.
RankFormula ==
    \A k \in 1..Len(results) :
        LET same == {j \in 1..k : SameQuiz(j, k)} IN
        /\ reports[k].rank = 1 + Cardinality({j \in same : Better(j, k)})
        /\ reports[k].total_users = Cardinality(same)
        /\ (/\ k = 4
            /\ Cardinality(same) = 4
            /\ Stored(results[k].quiz_id, 3) = {<<8, 50>>, <<8, 40>>, <<6, 10>>}
            /\ results[k].score = 8 /\ results[k].duration_seconds = 45)
           => reports[k] = [rank |-> 2, total_users |-> 4]
        /\ \A j \in same :
              Tied(j, k) =>
                 reports[k].rank = 1 + Cardinality({i \in same : Better(i, j)})

\* C8 witness: (8,50), (8,40) and (6,10) are stored for a quiz, in some order,
\* and (8,45) has been committed to it and ranked 2.
RankFormulaWitness ==
    /\ Len(results) = 4
    /\ \A k \in 1..4 : results[k].quiz_id = "qa"
    /\ Stored("qa", 3) = {<<8, 50>>, <<8, 40>>, <<6, 10>>}
    /\ results[4].score = 8 /\ results[4].duration_seconds = 45
    /\ reports[4].rank = 2

\* The rank of row k in the table as it is now.
RankOf(k) ==
    get_rank_for_result(results, results[k].quiz_id, results[k].score,
                        results[k].duration_seconds).rank

\* C9 as stated: of two results of a quiz with equal score and equal
\* duration, the one that finished first is ranked strictly ahead.
TieBreakByFinishTime ==
    \A j, k \in 1..Len(results) :
        (SameQuiz(j, k) /\ Tied(j, k) /\ results[j].finished_at < results[k].finished_at)
            => RankOf(j) < RankOf(k)

\* C9 as amended: results of a quiz are ranked by score descending, then
\* duration ascending, and finish time plays no part: one result is ranked
\* strictly ahead of another exactly if it has a higher score, or the same
\* score and a shorter duration; results equal in both share a rank, and
\* the best result of a quiz has rank 1.
RankOrder ==
    \A k \in 1..Len(results) :
        /\ \A j \in 1..Len(results) :
              SameQuiz(j, k) =>
                 /\ (RankOf(j) < RankOf(k)) <=> Better(j, k)
                 /\ Tied(j, k) => RankOf(j) = RankOf(k)
        /\ \E j \in 1..Len(results) : SameQuiz(j, k) /\ RankOf(j) = 1

\* C9 witness: two participants finished the same quiz with the same positive
\* score and the same duration, one later than the other.
RankOrderWitness ==
    \E j, k \in 1..Len(results) :
        /\ SameQuiz(j, k) /\ Tied(j, k)
        /\ results[j].finished_at < results[k].finished_at
        /\ results[j].user_id # results[k].user_id
        /\ results[j].score > 0

\* C11. Failure teardown: when send_poll or save_result raises during
\* send_next_question, the session the coroutine was advancing is no longer
\* in user_sessions afterwards.
FailureTeardown ==
    (\/ last.op = "send_poll_raises"
     \/ last.adv = "save_result_raised")
    => (last.sess # 0 => \A u \in Users : user_sessions[u] # last.sess)

\* C12. One Result per attempt: save_result commits at most one row for a
\* session object, exactly one for a session for which finish_quiz has run,
\* and every row of the results table is the row of one commit.
Commits(s) == Cardinality({k \in 1..Len(committed) : committed[k] = s})
OneResultPerAttempt ==
    /\ Len(results) = Len(committed)
    /\ \A s \in Sessions :
        /\ Commits(s) <= 1
        /\ Finished(s) => Commits(s) = 1

\* ------------------------------------------------- one call of the shuffle
\* Longest options list handed to the shuffle.
MaxOptions == 3
\* Option texts; a list may hold the same text twice.
Texts == {"a", "b", "c"}
OptionLists == UNION {[1..n -> Texts] : n \in 2..MaxOptions}

\* The session side of the bot, at rest.
running == <<user_sessions, heap, jobs, tasks, results, reports, published,
             starts, now, last, committed, faults>>
Idle ==
    /\ user_sessions = [u \in Users |-> 0]
    /\ heap = <<>>
    /\ jobs = {}
    /\ tasks = {}
    /\ results = <<>>
    /\ reports = <<>>
    /\ published = <<>>
    /\ starts = 0
    /\ now = 0
    /\ last = Event("init", 0, 0, -1, "none")
    /\ committed = <<>>
    /\ faults = 0

\* start_quiz_button holds a question of the loaded quiz: dict 1, whose options
\* are list 1; trial remembers the values both had when the quiz was loaded.
InitShuffle ==
    /\ Idle
    /\ document = <<>>
    /\ parsed = None
    /\ quizzes = QuizTable
    /\ temp_uploads = [u \in Users |-> None]
    /\ quiz_creation_step = [u \in Users |-> None]
    /\ \E options \in OptionLists : \E correct \in 0..(Len(options) - 1) :
        /\ lists = <<options>>
        /\ dicts = <<Question(1, correct)>>
        /\ trial = [options |-> options, correct |-> correct, ret |-> 0]

\* shuffle_question_options(q.copy()): q.copy() is a new dict that shares the
\* options list; the function shuffles a copy of that list, stores the copy
\* and the new correct index in the dict it was given, and returns that dict.
shuffle_copy ==
    /\ trial.ret = 0
    /\ \E p \in Perms(Len(lists[dicts[1].options])) :
        LET q == Len(dicts) + 1
            options == lists[dicts[1].options]
            question == shuffle_question_options(Question(options, dicts[1].correct), p)
            new_options == Len(lists) + 1
        IN  /\ lists' = Append(lists, question.options)
            /\ dicts' = Append(dicts, Question(new_options, question.correct))
            /\ trial' = [trial EXCEPT !.ret = q]
    /\ UNCHANGED <<running, creation, parsing>>

NextShuffle == shuffle_copy

SpecShuffle == InitShuffle /\ [][NextShuffle]_vars

\* How often text t occurs in the list seq.
Occurrences(seq, t) == Cardinality({i \in 1..Len(seq) : seq[i] = t})
IsPermutation(a, b) ==
    /\ Len(a) = Len(b)
    /\ \A t \in Texts : Occurrences(a, t) = Occurrences(b, t)

\* C13. Shuffle correctness: the question shuffle_question_options returns has
\* options that are a permutation of the original list O and a correct index
\* that points at a choice whose text equals O[c]; the options list and the
\* question dict of the loaded quiz keep the values they were loaded with.
ShuffleCorrectness ==
    /\ lists[1] = trial.options
    /\ dicts[1] = Question(1, trial.correct)
    /\ trial.ret # 0 =>
          LET returned == dicts[trial.ret]
              new_options == lists[returned.options]
          IN  /\ IsPermutation(new_options, trial.options)
              /\ returned.correct \in 0..(Len(new_options) - 1)
              /\ new_options[returned.correct + 1] = trial.options[trial.correct + 1]

\* C13 witness: a list that holds its correct text twice was shuffled into a
\* different order, and the correct index was rewritten.
ShuffleWitness ==
    /\ trial.ret # 0
    /\ Occurrences(trial.options, trial.options[trial.correct + 1]) = 2
    /\ lists[dicts[trial.ret].options] # trial.options
    /\ dicts[trial.ret].correct # trial.correct

\* ------------------------------------------------ the quiz creation dialogue
\* A text is the sequence of its characters; a character outside ASCII is
\* written by its Unicode name.
\* int() on one character: its decimal value, -1 if it has none.
DigitValue(ch) ==
    CASE ch = "0" -> 0 [] ch = "1" -> 1 [] ch = "2" -> 2 [] ch = "3" -> 3
      [] ch = "4" -> 4 [] ch = "5" -> 5 [] ch = "6" -> 6 [] ch = "7" -> 7
      [] ch = "8" -> 8 [] ch = "9" -> 9
      [] ch = "ARABIC-INDIC DIGIT SIX" -> 6
      [] OTHER -> -1

\* str.isdigit(): non-empty, and every character is a decimal digit or another
\* character of numeric type Digit, such as a superscript.
isdigit(text) ==
    /\ text # <<>>
    /\ \A i \in 1..Len(text) :
          DigitValue(text[i]) >= 0 \/ text[i] = "SUPERSCRIPT TWO"

\* int(text) raises ValueError unless every character is a decimal digit.
int_ValueError(text) ==
    text = <<>> \/ \E i \in 1..Len(text) : DigitValue(text[i]) < 0

\* int(text) for a text of decimal digits.
RECURSIVE int(_)
int(text) ==
    IF text = <<>> THEN 0
    ELSE int(SubSeq(text, 1, Len(text) - 1)) * 10 + DigitValue(text[Len(text)])

\* str.strip(): leading and trailing spaces removed.
RECURSIVE lstrip(_)
lstrip(text) ==
    IF text # <<>> /\ Head(text) = " " THEN lstrip(Tail(text)) ELSE text
RECURSIVE rstrip(_)
rstrip(text) ==
    IF text # <<>> /\ text[Len(text)] = " "
    THEN rstrip(SubSeq(text, 1, Len(text) - 1)) ELSE text
strip(text) == rstrip(lstrip(text))

\* (variant: no upper limit)
OutOfRangeNoUpper(seconds) == seconds < 5

\* if seconds < 5 or seconds > 600
OutOfRange(seconds) == seconds < 5 \/ seconds > 600

\* Text messages an operator sends.
MessageTexts ==
    {<<"4">>, <<" ", "5", " ">>, <<"6", "0", "0">>, <<"6", "0", "1">>,
     <<"SUPERSCRIPT TWO">>, <<"-", "5">>}

\* File names (their extension) and the questions the parser extracts.
Filenames == {".docx", ".xlsx", ".pdf"}
ParsedQuestions == {<<>>, <<Question(TF, 0)>>}

\* The ids "q_" + uuid.uuid4().hex[:8] can give.
NewQuizIds == {"q_1", "q_2"}

InitCreate ==
    /\ Idle
    /\ quizzes = QuizTable
    /\ temp_uploads = [u \in Users |-> None]
    /\ quiz_creation_step = [u \in Users |-> None]
    /\ lists = <<>>
    /\ dicts = <<>>
    /\ trial = None
    /\ document = <<>>
    /\ parsed = None

\* save_quiz_to_db: INSERT INTO quizzes; quiz_id is the primary key.
save_quiz_to_db(quiz_id, quiz_name, questions, time_per_question) ==
    quizzes' = [q \in DOMAIN quizzes \cup {quiz_id} |->
                  IF q = quiz_id
                  THEN [quiz_name |-> quiz_name, questions |-> questions,
                        time_per_question |-> time_per_question]
                  ELSE quizzes[q]]

\* A document arrives: a file that is not .docx or .xlsx, or one with no valid
\* question, is refused; else the upload is kept and the dialogue starts.
handle_file(user_id, filename, questions) ==
    /\ IF filename \notin {".docx", ".xlsx"}
       THEN /\ last' = Event("handle_file", user_id, 0, -1, "wrong_type")
            /\ UNCHANGED creation
       ELSE IF questions = <<>>
       THEN /\ last' = Event("handle_file", user_id, 0, -1, "no_questions")
            /\ UNCHANGED creation
       ELSE /\ temp_uploads' = [temp_uploads EXCEPT ![user_id] = [questions |-> questions]]
            /\ quiz_creation_step' = [quiz_creation_step EXCEPT ![user_id] =
                                         [step |-> "waiting_name", quiz_name |-> <<>>]]
            /\ last' = Event("handle_file", user_id, 0, -1, "received")
            /\ UNCHANGED quizzes
    /\ UNCHANGED <<user_sessions, heap, jobs, tasks, results, reports, published,
                   starts, now, committed, faults, shuffling, parsing>>

\* A text message arrives: ignored outside the dialogue; the quiz name in step
\* waiting_name; in step waiting_timer the time per question, which is saved
\* with the quiz when it is a number from 5 to 600.
handle_text(user_id, message_text) ==
    LET text == strip(message_text) IN
    /\ IF quiz_creation_step[user_id] = None
       THEN /\ last' = Event("handle_text", user_id, 0, -1, "ignored")
            /\ UNCHANGED creation
       ELSE IF quiz_creation_step[user_id].step = "waiting_name"
       THEN /\ quiz_creation_step' = [quiz_creation_step EXCEPT ![user_id] =
                                         [step |-> "waiting_timer", quiz_name |-> text]]
            /\ last' = Event("handle_text", user_id, 0, -1, "named")
            /\ UNCHANGED <<quizzes, temp_uploads>>
       ELSE IF ~isdigit(text)
       THEN /\ last' = Event("handle_text", user_id, 0, -1, "not_a_number")
            /\ UNCHANGED creation
       ELSE IF int_ValueError(text)
       THEN /\ last' = Event("handle_text", user_id, 0, -1, "ValueError")
            /\ UNCHANGED creation
       ELSE IF OutOfRange(int(text))
       THEN /\ last' = Event("handle_text", user_id, 0, -1, "out_of_range")
            /\ UNCHANGED creation
       ELSE \E quiz_id \in NewQuizIds :
            IF quiz_id \in DOMAIN quizzes
            THEN /\ last' = Event("handle_text", user_id, 0, -1, "UniqueViolation")
                 /\ UNCHANGED creation
            ELSE /\ save_quiz_to_db(quiz_id, quiz_creation_step[user_id].quiz_name,
                                    temp_uploads[user_id].questions, int(text))
                 /\ temp_uploads' = [temp_uploads EXCEPT ![user_id] = None]
                 /\ quiz_creation_step' = [quiz_creation_step EXCEPT ![user_id] = None]
                 /\ last' = Event("handle_text", user_id, 0, -1, "saved")
    /\ UNCHANGED <<user_sessions, heap, jobs, tasks, results, reports, published,
                   starts, now, committed, faults, shuffling, parsing>>

NextCreate ==
    \/ \E u \in Users, filename \in Filenames, questions \in ParsedQuestions :
          handle_file(u, filename, questions)
    \/ \E u \in Users, text \in MessageTexts : handle_text(u, text)

SpecCreate == InitCreate /\ [][NextCreate]_vars

\* The text is a number from 5 to 600: decimal digits, spaces around them
\* aside, whose value lies in the range.
NumberInRange(message_text) ==
    LET text == strip(message_text) IN
    /\ text # <<>>
    /\ \A i \in 1..Len(text) : DigitValue(text[i]) \in 0..9
    /\ int(text) \in 5..600

SavedInRange == \A q \in DOMAIN quizzes : quizzes[q].time_per_question \in 5..600

\* C14. InvalidConfig: a text that is not a number in [5,600], sent in step
\* waiting_timer, saves no quiz and leaves the step waiting_timer and the upload
\* as they were; every quiz in the quizzes table has time_per_question in
\* [5,600].
InvalidConfigStep ==
    /\ SavedInRange'
    /\ \A u \in Users :
          (/\ last'.op = "handle_text" /\ last'.user_id = u
           /\ quiz_creation_step[u] # None
           /\ quiz_creation_step[u].step = "waiting_timer"
           /\ \/ quizzes' # quizzes
              \/ quiz_creation_step'[u] # quiz_creation_step[u]
              \/ temp_uploads'[u] # temp_uploads[u])
          => \A text \in MessageTexts : handle_text(u, text) => NumberInRange(text)
InvalidConfigRejected == SavedInRange /\ [][InvalidConfigStep]_vars

\* C14 witness: a quiz was saved with 600 seconds, and an operator in step
\* waiting_timer has just sent a digit text that int() does not accept.
InvalidConfigWitness ==
    /\ last.op = "handle_text" /\ last.res = "ValueError"
    /\ quiz_creation_step[last.user_id].step = "waiting_timer"
    /\ temp_uploads[last.user_id] # None
    /\ \E q \in DOMAIN quizzes : quizzes[q].time_per_question = 600

\* C15. Timer uniqueness: at most one timeout job is armed per participant,
\* and from the moment poll_answer accepts an answer until the send_poll of
\* the question it publishes next has returned, no job is armed for that
\* participant.
TimerUniqueness ==
    /\ \A u \in Users : Cardinality(get_jobs_by_name(u)) <= 1
    /\ \A f \in tasks :
          (f.kind = "poll_answer" /\ f.pc = "send_poll")
          => get_jobs_by_name(f.user_id) = {}

\* C16. Timer binding: when a timeout job fires, the only session it changes
\* or advances is the session it was armed for, and the only change is that
\* the job's question index enters that session's answered set.
TimerBindingStep ==
    last'.op = "question_timeout" =>
        \A job \in jobs \ jobs' :
            /\ \A s \in Sessions :
                  heap'[s] # heap[s] =>
                      /\ s = job.armed_for
                      /\ heap'[s] = [heap[s] EXCEPT !.answered = @ \cup {job.question_index}]
            /\ last'.adv # "none" => last'.sess = job.armed_for
TimerBinding == [][TimerBindingStep]_vars

\* C17. Session lifecycle: a session leaves user_sessions only when the
\* finish_quiz that committed its Result returns from sending the final
\* message, or when start_quiz_button stores a new session for the same
\* participant; a finish_quiz resumed after the final message never removes
\* a session other than the one it finished.
SessionLifecycleStep ==
    \A u \in Users :
        (user_sessions[u] # 0 /\ user_sessions'[u] # user_sessions[u]) =>
            IF user_sessions'[u] = 0
            THEN /\ Commits(user_sessions[u]) >= 1
                 /\ \E f \in tasks \ tasks' :
                       /\ f.pc = "send_message"
                       /\ f.user_id = u
                       /\ f.sess = user_sessions[u]
            ELSE last'.op = "start_quiz_button_load" /\ last'.user_id = u
SessionLifecycle == [][SessionLifecycleStep]_vars

\* C18. Session progress (the state form): a session in user_sessions with a
\* published question that is not resolved has a job armed for that question,
\* or a coroutine of its participant is still running; otherwise nothing but
\* an answer can ever advance it.
PublishedUnresolved(s) ==
    {heap[s].poll_to_index[p] : p \in DOMAIN heap[s].poll_to_index} \ heap[s].answered
NoStuckSession ==
    \A u \in Users :
        LET s == user_sessions[u] IN
        s # 0 =>
            \A i \in PublishedUnresolved(s) :
                \/ \E job \in get_jobs_by_name(u) : job.question_index = i
                \/ \E f \in tasks : f.user_id = u

\* C19. Silent replace: start_quiz_button leaves the participant with one
\* session, a new object; a session for which nothing has been published has
\* index 0, score 0, an empty answered set and an empty poll_to_index; a
\* session's poll_to_index holds only poll ids published for that session; and
\* a poll_answer that carries a poll id published for another session changes
\* nothing.
Fresh(s) ==
    /\ heap[s].index = 0 /\ heap[s].score = 0
    /\ heap[s].answered = {} /\ DOMAIN heap[s].poll_to_index = {}
FreshUntilPublished ==
    \A s \in Sessions :
        /\ published[s] = <<>> => Fresh(s)
        /\ \A p \in DOMAIN heap[s].poll_to_index : p[1] = s
SilentReplaceStep ==
    /\ FreshUntilPublished'
    /\ (last'.op = "start_quiz_button_load" /\ last'.res = "created") =>
          /\ user_sessions'[last'.user_id] = Len(heap')
          /\ Len(heap') = Len(heap) + 1
          /\ \A u \in Users \ {last'.user_id} : user_sessions'[u] = user_sessions[u]
    /\ (/\ last'.op = "poll_answer"
        /\ ~UNCHANGED <<user_sessions, heap, jobs, tasks, results, reports, published>>)
       => \A poll_id \in PollIds, selected \in OptionIds :
              poll_answer(last'.user_id, poll_id, selected)
              => poll_id[1] = user_sessions[last'.user_id]
IndependenceStep ==
    LET a == last'.user_id IN
    /\ \A s \in Sessions : heap[s].chat_id # a => heap'[s] = heap[s]
    /\ \A b \in Users \ {a} :
          /\ user_sessions'[b] = user_sessions[b]
          /\ {j \in jobs' : j.user_id = b} = {j \in jobs : j.user_id = b}
    /\ last'.op \in {"poll_answer", "question_timeout"} =>
          \A s \in Sessions : heap'[s] # heap[s] => s = user_sessions[a]
    /\ (/\ last'.op = "poll_answer"
        /\ ~UNCHANGED <<user_sessions, heap, jobs, tasks, results, reports, published>>)
       => \A poll_id \in PollIds, selected \in OptionIds :
              poll_answer(a, poll_id, selected) => heap[poll_id[1]].chat_id = a
CrossParticipantIndependence == [][IndependenceStep]_vars

\* C20 witness: two participants each have one session with a poll open and
\* a job armed, no coroutine is running, and a poll_answer of one of them has
\* just been dropped as unknown: it carried the other participant's poll id.
IndependenceWitness ==
    /\ last.op = "poll_answer" /\ last.res = "unknown_poll"
    /\ tasks = {}
    /\ Len(heap) = 2
    /\ heap[1].chat_id # heap[2].chat_id
    /\ \A s \in Sessions :
          /\ user_sessions[heap[s].chat_id] = s
          /\ Len(published[s]) = 1
          /\ Cardinality(DOMAIN heap[s].poll_to_index) = 1
          /\ heap[s].answered = {}
    /\ Cardinality(jobs) = 2

\* C21. Rank snapshot under concurrent finishers: the rank and total_users
\* reported for the k-th committed result are computed on exactly the rows
\* committed up to and including it, so 1 <= rank <= total_users, and of two
\* results of the same quiz the later one is reported a larger total_users.
RankSnapshot ==
    /\ Len(reports) = Len(results)
    /\ \A k \in 1..Len(results) :
          LET same == {j \in 1..k : SameQuiz(j, k)} IN
          /\ reports[k].total_users = Cardinality(same)
          /\ reports[k].rank = 1 + Cardinality({j \in same : Better(j, k)})
          /\ 1 <= reports[k].rank /\ reports[k].rank <= reports[k].total_users
          /\ \A j \in same \ {k} : reports[j].total_users < reports[k].total_users

\* C21 witness: two participants' sessions of the same quiz have both been
\* committed and both finish_quiz coroutines are still awaiting their final
\* message; the later one was reported total_users 2.
RankSnapshotWitness ==
    /\ Len(results) = 2
    /\ SameQuiz(1, 2)
    /\ results[1].user_id # results[2].user_id
    /\ reports[2].total_users = 2
    /\ \E f, g \in tasks :
          /\ f.pc = "send_message" /\ g.pc = "send_message"
          /\ f.rid = 1 /\ g.rid = 2

\* ------------------------------------------------------------ the parsers
\* Most rows (blocks) in one file.
MaxBlocks == 2

\* str.upper() and str.lower() on the words a TYPE or CORRECT/ANSWER field holds.
upper(word) ==
    CASE word = "a" -> "A" [] word = "b" -> "B" [] word = "c" -> "C"
      [] word = "d" -> "D" [] word = "e" -> "E" [] word = "tf" -> "TF"
      [] word = "true" -> "TRUE" [] word = "True" -> "TRUE"
      [] word = "false" -> "FALSE" [] word = "False" -> "FALSE"
      [] word = "mcq" -> "MCQ"
      [] OTHER -> word
lower(word) ==
    CASE word = "A" -> "a" [] word = "B" -> "b" [] word = "C" -> "c"
      [] word = "D" -> "d" [] word = "E" -> "e" [] word = "TF" -> "tf"
      [] word = "TRUE" -> "true" [] word = "True" -> "true"
      [] word = "FALSE" -> "false" [] word = "False" -> "false"
      [] word = "MCQ" -> "mcq"
      [] OTHER -> word

\* correct_map = {"A": 0, "B": 1, "C": 2, "D": 3}
correct_map == [A |-> 0, B |-> 1, C |-> 2, D |-> 3]

\* One row of a table or sheet, or one block of the old text format: the TYPE,
\* whether a question text is there, the texts after A) .. D) (blank if the
\* option is missing) and the CORRECT or ANSWER word.
Types == {"TF", "MCQ"}
CellTexts == {<<" ">>, <<"x", " ">>}
Answers == {"A", "b", "D", "E", "True"}
Rows ==
    [type : Types, question : BOOLEAN, a : CellTexts, b : CellTexts,
     c : CellTexts, d : CellTexts, correct : Answers]
Documents == UNION {[1..n -> Rows] : n \in 1..MaxBlocks}

\* options = [opt.strip() for opt in [a, b, c, d] if opt.strip()]; in the old
\* format, the texts of the letters for which the block has a line.
PresentOptions(row) ==
    LET stripped == <<strip(row.a), strip(row.b), strip(row.c), strip(row.d)>>
        present(opt) == opt # <<>>
    IN  SelectSeq(stripped, present)

\* The body of the loop of parse_docx_old_format: the questions (none or one)
\* a block adds.
old_format_block(block) ==
    IF ~block.question THEN <<>>
    ELSE IF upper(block.type) = "TF"
    THEN <<Question(TF, IF lower(block.correct) = "true" THEN 0 ELSE 1)>>
    ELSE LET options == PresentOptions(block)
             correct_letter == upper(block.correct)
         IN  IF Len(options) < 2 THEN <<>>
             ELSE IF correct_letter \notin DOMAIN correct_map THEN <<>>
             ELSE <<Question(options, correct_map[correct_letter])>>

\* The body of the row loop of parse_docx_table and of parse_xlsx (the two
\* are the same from q_type on).
table_row(row) ==
    IF ~row.question THEN <<>>
    ELSE IF upper(row.type) = "TF"
    THEN IF lower(row.correct) = "true" THEN <<Question(TF, 0)>>
         ELSE IF lower(row.correct) = "false" THEN <<Question(TF, 1)>>
         ELSE <<>>
    ELSE LET options == PresentOptions(row)
             correct_letter == upper(row.correct)
         IN  IF Len(options) < 2 THEN <<>>
             ELSE IF correct_letter \notin DOMAIN correct_map THEN <<>>
             ELSE IF correct_map[correct_letter] >= Len(options) THEN <<>>
             ELSE <<Question(options, correct_map[correct_letter])>>

RECURSIVE parse_docx_old_format(_)
parse_docx_old_format(blocks) ==
    IF blocks = <<>> THEN <<>>
    ELSE old_format_block(Head(blocks)) \o parse_docx_old_format(Tail(blocks))

RECURSIVE parse_docx_table(_)
parse_docx_table(rows) ==
    IF rows = <<>> THEN <<>>
    ELSE table_row(Head(rows)) \o parse_docx_table(Tail(rows))

RECURSIVE parse_xlsx(_)
parse_xlsx(rows) ==
    IF rows = <<>> THEN <<>>
    ELSE table_row(Head(rows)) \o parse_xlsx(Tail(rows))

\* A file has arrived and is about to be parsed.
InitParse ==
    /\ Idle
    /\ quizzes = QuizTable
    /\ temp_uploads = [u \in Users |-> None]
    /\ quiz_creation_step = [u \in Users |-> None]
    /\ lists = <<>>
    /\ dicts = <<>>
    /\ trial = None
    /\ document \in Documents
    /\ parsed = None

\* The file is parsed as a .docx with paragraphs, a .docx with a table, or
\* an .xlsx sheet.
run_parse_docx_old_format ==
    /\ parsed = None
    /\ parsed' = [parser |-> "parse_docx_old_format",
                  questions |-> parse_docx_old_format(document)]
    /\ UNCHANGED <<running, creation, shuffling, document>>

run_parse_docx_table ==
    /\ parsed = None
    /\ parsed' = [parser |-> "parse_docx_table",
                  questions |-> parse_docx_table(document)]
    /\ UNCHANGED <<running, creation, shuffling, document>>

run_parse_xlsx ==
    /\ parsed = None
    /\ parsed' = [parser |-> "parse_xlsx", questions |-> parse_xlsx(document)]
    /\ UNCHANGED <<running, creation, shuffling, document>>

NextParse ==
    \/ run_parse_docx_old_format
    \/ run_parse_docx_table
    \/ run_parse_xlsx

SpecParse == InitParse /\ [][NextParse]_vars

\* A question has at least 2 options and a correct index inside them.
ValidQuestion(q) ==
    /\ Len(q.options) >= 2
    /\ 0 <= q.correct /\ q.correct < Len(q.options)

\* C22. Ingested question validity: every question a parser returns has at
\* least 2 options and a correct index c with 0 <= c < len(options).
IngestedQuestionsValid ==
    parsed # None =>
        \A i \in 1..Len(parsed.questions) : ValidQuestion(parsed.questions[i])

====
